---- MODULE Spec2Model ----
(***************************************************************************)
(* apread: a command-line reader that resolves a handle id@domain to the   *)
(* posts of the first outbox page (src/main.rs).                           *)
(*                                                                         *)
(* Strings are sequences of one-character strings; a URL is a sequence of  *)
(* string fragments; Option values are sequences of length 0 or 1; Result  *)
(* values are records with an ok flag.                                     *)
(***************************************************************************)
EXTENDS Naturals, Sequences, FiniteSets, TLC

(* ------------------------------ bounds -------------------------------- *)

\* longest command-line argument tried by the handle-parsing specification
MaxHandleLen == 5
\* longest links array tried by the feed-resolution specification
MaxLinks == 4
\* longest orderedItems array tried by the post-extraction specification
MaxItems == 3

(* -------------------------- program constants ------------------------- *)

\* println!("{:>15}\n", handle.id)
HeaderWidth == 15
\* textwrap::Options::new(80)
WrapWidth == 80
\* println!("     {}", line)
IndentWidth == 5

(* ------------------------------ helpers ------------------------------- *)

None == << >>
Some(v) == << v >>

Ok(v) == [ok |-> TRUE, val |-> v]
Err(e) == [ok |-> FALSE, err |-> e]

Chars == {"a", "b", "@"}

\* all sequences over S of length at most n
SeqsUpTo(S, n) == UNION { [1..k -> S] : k \in 0..n }

Repeat(c, n) == [k \in 1..n |-> c]

(* ------------------------------- Handle ------------------------------- *)

\* str::split("@"): the components between separators; a string with no
\* separator (the empty string included) is a single component
RECURSIVE split(_)
split(s) ==
  IF \A k \in 1..Len(s) : s[k] # "@"
    THEN << s >>
    ELSE LET k == CHOOSE k \in 1..Len(s) :
                    s[k] = "@" /\ \A m \in 1..(k - 1) : s[m] # "@"
         IN  << SubSeq(s, 1, k - 1) >> \o split(SubSeq(s, k + 1, Len(s)))

\* Vec::get with a zero-based index
get(vec, n) == IF n < Len(vec) THEN Some(vec[n + 1]) ELSE None

\* the component at index 0 is taken as the domain and index 1 as the id
parse_string_swapped(given) ==
  LET candidate == split(given)
      domain    == get(candidate, 0)
      id        == get(candidate, 1)
  IN  IF id = None THEN Err("BadHandleError")
      ELSE IF domain = None THEN Err("BadHandleError")
      ELSE Ok([domain |-> domain[1], id |-> id[1]])

\* the last component is taken as the domain
parse_string_last(given) ==
  LET candidate == split(given)
      domain    == IF Len(candidate) > 1
                     THEN Some(candidate[Len(candidate)]) ELSE None
      id        == get(candidate, 0)
  IN  IF domain = None THEN Err("BadHandleError")
      ELSE IF id = None THEN Err("BadHandleError")
      ELSE Ok([domain |-> domain[1], id |-> id[1]])

parse_string(given) ==
  LET candidate == split(given)
      domain    == get(candidate, 1)
      id        == get(candidate, 0)
  IN  IF domain = None THEN Err("BadHandleError")
      ELSE IF id = None THEN Err("BadHandleError")
      ELSE Ok([domain |-> domain[1], id |-> id[1]])

to_webfinger_url(h) ==
  << "https://" >> \o h.domain
    \o << "/.well-known/webfinger?resource=acct:" >> \o h.id
    \o << "@" >> \o h.domain

(* ----------------------------- Webfinger ------------------------------ *)

Profile == [rel |-> "http://webfinger.net/rel/profile-page"]
Feed(href) == [rel |-> "self", href |-> href]
Subscribe == [rel |-> "http://ostatus.org/schema/1.0/subscribe"]

\* the for loop of to_actor_url from position k on, feed being the holder
RECURSIVE scan_links(_, _, _)
scan_links(links, k, feed) ==
  IF k > Len(links) THEN feed
  ELSE scan_links(links, k + 1,
                  IF links[k].rel = "self" THEN Ok(links[k].href) ELSE feed)

\* the holder is written only while it is still empty
RECURSIVE scan_links_first(_, _, _)
scan_links_first(links, k, feed) ==
  IF k > Len(links) THEN feed
  ELSE scan_links_first(links, k + 1,
                  IF links[k].rel = "self" /\ ~feed.ok
                    THEN Ok(links[k].href) ELSE feed)

\* the first Feed link wins
to_actor_url_first(wf) == scan_links_first(wf.links, 1, Err("NoFeedLink"))

to_actor_url(wf) == scan_links(wf.links, 1, Err("NoFeedLink"))

(* ------------------------------- Page --------------------------------- *)

PostItem(content, published) ==
  [variant |-> "Post", object |-> [content |-> content], published |-> published]
Boost == [variant |-> "Boost"]

\* the for loop of Page::posts from position k on, acc being the vector
RECURSIVE collect_posts(_, _, _)
collect_posts(items, k, acc) ==
  IF k > Len(items) THEN acc
  ELSE collect_posts(items, k + 1,
                     IF items[k].variant = "Post"
                       THEN Append(acc, items[k]) ELSE acc)

\* each match is put in front of the vector
RECURSIVE collect_posts_front(_, _, _)
collect_posts_front(items, k, acc) ==
  IF k > Len(items) THEN acc
  ELSE collect_posts_front(items, k + 1,
                     IF items[k].variant = "Post"
                       THEN << items[k] >> \o acc ELSE acc)

\* the posts come out in reverse order
posts_reversed(pg) == collect_posts_front(pg.ordered_items, 1, << >>)

posts(pg) == collect_posts(pg.ordered_items, 1, << >>)

(* ----------------------- content and rendering ------------------------ *)

\* Post.content is markup: a sequence of tag tokens and word tokens
Tag(name) == [kind |-> "tag", text |-> << "<", name, ">" >>]
Word(n) == [kind |-> "word", text |-> Repeat("x", n)]

\* html2md::parse_html: the text of the markup, as its sequence of words
parse_html(content) ==
  LET words == SelectSeq(content, LAMBDA t : t.kind = "word")
  IN  [k \in 1..Len(words) |-> words[k].text]

markdown_content(item) ==
  IF item.variant = "Boost" THEN << >> ELSE parse_html(item.object.content)

\* textwrap::wrap from word k on: cur is the line being filled, acc the
\* finished lines; a word goes on the current line when it fits in width
RECURSIVE wrap_words(_, _, _, _, _)
wrap_words(words, k, cur, acc, width) ==
  IF k > Len(words) THEN Append(acc, cur)
  ELSE IF cur = << >>
    THEN wrap_words(words, k + 1, words[k], acc, width)
  ELSE IF Len(cur) + 1 + Len(words[k]) <= width
    THEN wrap_words(words, k + 1, cur \o << " " >> \o words[k], acc, width)
  ELSE wrap_words(words, k + 1, words[k], Append(acc, cur), width)

\* textwrap::wrap(text, width): the empty text wraps to one empty line
wrap(text, width) == wrap_words(text, 1, << >>, << >>, width)

\* the id is left-aligned in the field
fmt_header_left(id) ==
  id \o Repeat(" ", IF Len(id) < HeaderWidth THEN HeaderWidth - Len(id) ELSE 0)

\* format!("{:>15}", id): padded on the left up to the width, never cut
fmt_header(id) ==
  Repeat(" ", IF Len(id) < HeaderWidth THEN HeaderWidth - Len(id) ELSE 0) \o id

\* format!("     {}", line)
fmt_body(line) == Repeat(" ", IndentWidth) \o line

(* ------------------------------- state -------------------------------- *)

VARIABLES
  given_string,  \* cli.handle
  handle,        \* Option: the parsed Handle
  pc,            \* position in main
  stage,         \* 0 before the first request; 1 webfinger, 2 actor, 3 index, 4 page
  requests,      \* the GET requests issued so far, in order
  pending,       \* stages whose request is sent and whose response is not yet read
  webfinger,     \* Option: the decoded Webfinger
  feed,          \* Option: the Result of webfinger.to_actor_url()
  actor,         \* Option: the decoded Actor
  index,         \* Option: the decoded OutboxIndex
  page,          \* Option: the decoded Page
  for_posts,     \* the vector the for loop iterates, page.posts()
  post_idx,      \* position of the for loop in for_posts
  lines,         \* the wrapped lines of the current post
  line_idx,      \* position of the inner for loop in lines
  stdout,        \* the lines printed so far
  outcome        \* "running", "ok", or the error main returned

vars == << given_string, handle, pc, stage, requests, pending, webfinger, feed,
           actor, index, page, for_posts, post_idx, lines, line_idx, stdout,
           outcome >>

AcceptWebfinger == "application/activity+json"
AcceptActivity ==
  "application/ld+json; profile=\"https://www.w3.org/ns/activitystreams\""

Errors == {"BadHandleError", "NoFeedLink", "RequestError"}

(* ------------------------------- inputs ------------------------------- *)

HandleStrings == SeqsUpTo(Chars, MaxHandleLen)

\* command lines tried by the whole-run specification
CliHandles ==
  { << >>, << "a" >>, << "a", "@", "b" >>, << "@", "b" >>,
    << "a", "b", "@", "a", "@", "b" >>,
    Repeat("a", HeaderWidth + 1) \o << "@", "b" >> }

UrlA == << "https://b/users/a" >>
UrlB == << "https://b/actor/a" >>
Links == {Profile, Subscribe, Feed(UrlA), Feed(UrlB)}

WebfingerDocs == { [links |-> l] : l \in SeqsUpTo(Links, MaxLinks) }

\* responses of the webfinger stage tried by the whole-run specification
WebfingerSamples ==
  { [links |-> << >>],
    [links |-> << Profile, Subscribe >>],
    [links |-> << Profile, Feed(UrlA), Subscribe >>],
    [links |-> << Profile, Feed(UrlA), Feed(UrlB), Subscribe >>] }

ActorDocs == { [outbox |-> u] : u \in { << "https://b/outbox" >>, << "https://b/o2" >> } }

PageUrls == { << "https://b/outbox?page=1" >>, << "https://b/outbox?page=9" >> }
IndexDocs == [first : PageUrls, last : PageUrls, total_items : {0, 3}]

ContentEmpty == << >>
ContentShort == << Tag("p"), Word(2), Tag("/p") >>
ContentFit == << Tag("p"), Word(40), Word(39), Tag("/p") >>
ContentLong == << Word(40), Tag("br"), Word(40), Word(3) >>

Items ==
  {Boost} \cup { PostItem(c, "t") : c \in {ContentEmpty, ContentShort, ContentLong} }

PageDocs == { [ordered_items |-> l] : l \in SeqsUpTo(Items, MaxItems) }

\* responses of the page stage tried by the whole-run specification
PageSamples ==
  { [ordered_items |-> << >>],
    [ordered_items |-> << Boost >>],
    [ordered_items |-> << PostItem(ContentEmpty, "t") >>],
    [ordered_items |-> << PostItem(ContentFit, "t"), Boost >>],
    [ordered_items |-> << PostItem(ContentShort, "t"), Boost,
                          PostItem(ContentLong, "t") >>] }

(* ------------------------------ actions ------------------------------- *)

\* let handle = Handle::parse_string(&cli.handle)?;
ParseHandle ==
  /\ pc = "parse"
  /\ LET r == parse_string(given_string)
     IN  IF r.ok
           THEN /\ handle' = Some(r.val)
                /\ pc' = "request"
                /\ stage' = 1
                /\ outcome' = outcome
           ELSE /\ handle' = handle
                /\ pc' = "exit"
                /\ stage' = stage
                /\ outcome' = r.err
  /\ UNCHANGED << given_string, requests, pending, webfinger, feed, actor,
                  index, page, for_posts, post_idx, lines, line_idx, stdout >>

\* the request of the current stage goes out to url
Issue(url, accept) ==
  /\ requests' = Append(requests, [stage |-> stage, url |-> url, accept |-> accept])
  /\ pending' = pending \cup {stage}
  /\ pc' = "send"
  /\ UNCHANGED << given_string, handle, stage, webfinger, feed, actor, index,
                  page, for_posts, post_idx, lines, line_idx, stdout, outcome >>

\* client.get(handle.to_webfinger_url()).header(..).send()
RequestWebfinger ==
  /\ pc = "request" /\ stage = 1
  /\ Issue(to_webfinger_url(handle[1]), AcceptWebfinger)

\* without a Feed link the error is noted and the run goes on to a default URL
ResolveActorUrlFallback ==
  /\ pc = "resolve"
  /\ LET r == to_actor_url(webfinger[1])
     IN  IF r.ok
           THEN feed' = Some(r) /\ outcome' = outcome
           ELSE feed' = Some(Ok(UrlA)) /\ outcome' = r.err
  /\ pc' = "request"
  /\ stage' = 2
  /\ UNCHANGED << given_string, handle, requests, pending, webfinger, actor,
                  index, page, for_posts, post_idx, lines, line_idx, stdout >>

\* webfinger.to_actor_url()?
ResolveActorUrl ==
  /\ pc = "resolve"
  /\ LET r == to_actor_url(webfinger[1])
     IN  /\ feed' = Some(r)
         /\ IF r.ok
              THEN pc' = "request" /\ stage' = 2 /\ outcome' = outcome
              ELSE pc' = "exit" /\ stage' = stage /\ outcome' = r.err
  /\ UNCHANGED << given_string, handle, requests, pending, webfinger, actor,
                  index, page, for_posts, post_idx, lines, line_idx, stdout >>

\* client.get(<actor url>).header(..).send()
RequestActor ==
  /\ pc = "request" /\ stage = 2
  /\ Issue(feed[1].val, AcceptActivity)

\* client.get(actor.outbox).header(..).send()
RequestIndex ==
  /\ pc = "request" /\ stage = 3
  /\ Issue(actor[1].outbox, AcceptActivity)

\* the page is requested at index.last
RequestPageLast ==
  /\ pc = "request" /\ stage = 4
  /\ Issue(index[1].last, AcceptActivity)

\* client.get(index.first).header(..).send()
RequestPage ==
  /\ pc = "request" /\ stage = 4
  /\ Issue(index[1].first, AcceptActivity)

\* .send().await yields a response
SendOk ==
  /\ pc = "send"
  /\ pc' = "json"
  /\ UNCHANGED << given_string, handle, stage, requests, pending, webfinger,
                  feed, actor, index, page, for_posts, post_idx, lines,
                  line_idx, stdout, outcome >>

\* main returns Err(RequestError)
Abort ==
  /\ pc' = "exit"
  /\ outcome' = "RequestError"
  /\ pending' = pending \ {stage}
  /\ UNCHANGED << given_string, handle, stage, requests, webfinger, feed,
                  actor, index, page, for_posts, post_idx, lines, line_idx,
                  stdout >>

\* the request is sent again after a transport failure
SendErrRetry ==
  /\ pc = "send"
  /\ Len(requests) <= 4
  /\ requests' = Append(requests, requests[Len(requests)])
  /\ UNCHANGED << given_string, handle, pc, stage, pending, webfinger, feed,
                  actor, index, page, for_posts, post_idx, lines, line_idx,
                  stdout, outcome >>

\* .send().await? fails: a transport failure
SendErr ==
  /\ pc = "send"
  /\ Abort

\* .json::<T>().await? fails: the body cannot be read or decoded
JsonErr ==
  /\ pc = "json"
  /\ Abort

\* .json::<Webfinger>().await yields the document
JsonWebfinger ==
  /\ pc = "json" /\ stage = 1
  /\ \E doc \in WebfingerSamples : webfinger' = Some(doc)
  /\ pending' = pending \ {stage}
  /\ pc' = "resolve"
  /\ UNCHANGED << given_string, handle, stage, requests, feed, actor, index,
                  page, for_posts, post_idx, lines, line_idx, stdout, outcome >>

\* .json::<Actor>().await yields the document
JsonActor ==
  /\ pc = "json" /\ stage = 2
  /\ \E doc \in ActorDocs : actor' = Some(doc)
  /\ pending' = pending \ {stage}
  /\ pc' = "request"
  /\ stage' = 3
  /\ UNCHANGED << given_string, handle, requests, webfinger, feed, index,
                  page, for_posts, post_idx, lines, line_idx, stdout, outcome >>

\* .json::<OutboxIndex>().await yields the document
JsonIndex ==
  /\ pc = "json" /\ stage = 3
  /\ \E doc \in IndexDocs : index' = Some(doc)
  /\ pending' = pending \ {stage}
  /\ pc' = "request"
  /\ stage' = 4
  /\ UNCHANGED << given_string, handle, requests, webfinger, feed, actor,
                  page, for_posts, post_idx, lines, line_idx, stdout, outcome >>

\* .json::<Page>().await yields the document
JsonPage ==
  /\ pc = "json" /\ stage = 4
  /\ \E doc \in PageSamples : page' = Some(doc)
  /\ pending' = pending \ {stage}
  /\ pc' = "posts"
  /\ UNCHANGED << given_string, handle, stage, requests, webfinger, feed,
                  actor, index, for_posts, post_idx, lines, line_idx, stdout,
                  outcome >>

\* for post in page.posts()
CollectPosts ==
  /\ pc = "posts"
  /\ for_posts' = posts(page[1])
  /\ post_idx' = 1
  /\ pc' = "loop"
  /\ UNCHANGED << given_string, handle, stage, requests, pending, webfinger,
                  feed, actor, index, page, lines, line_idx, stdout, outcome >>

\* println!("{:>15}\n", handle.id): the header line and the line the "\n"
\* of the format string ends; then the post is converted and wrapped
PrintHeader ==
  /\ pc = "loop" /\ post_idx <= Len(for_posts)
  /\ stdout' = stdout \o << fmt_header(handle[1].id), << >> >>
  /\ lines' = wrap(markdown_content(for_posts[post_idx]), WrapWidth)
  /\ line_idx' = 1
  /\ pc' = "body"
  /\ UNCHANGED << given_string, handle, stage, requests, pending, webfinger,
                  feed, actor, index, page, for_posts, post_idx, outcome >>

\* println!("     {}", line)
PrintLine ==
  /\ pc = "body" /\ line_idx <= Len(lines)
  /\ stdout' = Append(stdout, fmt_body(lines[line_idx]))
  /\ line_idx' = line_idx + 1
  /\ UNCHANGED << given_string, handle, pc, stage, requests, pending,
                  webfinger, feed, actor, index, page, for_posts, post_idx,
                  lines, outcome >>

\* println!()
PrintSeparator ==
  /\ pc = "body" /\ line_idx > Len(lines)
  /\ stdout' = Append(stdout, << >>)
  /\ post_idx' = post_idx + 1
  /\ pc' = "loop"
  /\ UNCHANGED << given_string, handle, stage, requests, pending, webfinger,
                  feed, actor, index, page, for_posts, lines, line_idx,
                  outcome >>

\* the loop is left after its first pass
FinishEarly ==
  /\ pc = "loop" /\ (post_idx > Len(for_posts) \/ post_idx > 1)
  /\ pc' = "exit"
  /\ outcome' = "ok"
  /\ UNCHANGED << given_string, handle, stage, requests, pending, webfinger,
                  feed, actor, index, page, for_posts, post_idx, lines,
                  line_idx, stdout >>

\* Ok(())
Finish ==
  /\ pc = "loop" /\ post_idx > Len(for_posts)
  /\ pc' = "exit"
  /\ outcome' = "ok"
  /\ UNCHANGED << given_string, handle, stage, requests, pending, webfinger,
                  feed, actor, index, page, for_posts, post_idx, lines,
                  line_idx, stdout >>

(* --------------------------- specifications --------------------------- *)

\* the state main starts in, for the command line s
Start(s) ==
  /\ given_string = s
  /\ handle = None
  /\ pc = "parse"
  /\ stage = 0
  /\ requests = << >>
  /\ pending = {}
  /\ webfinger = None
  /\ feed = None
  /\ actor = None
  /\ index = None
  /\ page = None
  /\ for_posts = << >>
  /\ post_idx = 0
  /\ lines = << >>
  /\ line_idx = 0
  /\ stdout = << >>
  /\ outcome = "running"

\* one whole run of main
Init == \E s \in CliHandles : Start(s)

Next ==
  \/ ParseHandle
  \/ RequestWebfinger
  \/ SendOk
  \/ SendErr
  \/ JsonWebfinger
  \/ JsonErr
  \/ ResolveActorUrl
  \/ RequestActor
  \/ JsonActor
  \/ RequestIndex
  \/ JsonIndex
  \/ RequestPage
  \/ JsonPage
  \/ CollectPosts
  \/ PrintHeader
  \/ PrintLine
  \/ PrintSeparator
  \/ Finish

Spec == Init /\ [][Next]_vars

\* every issued request yields a response or a failure, and main runs on
LiveSpec == Init /\ [][Next]_vars /\ WF_vars(Next)

\* Handle::parse_string over all short command lines
InitParse == \E s \in HandleStrings : Start(s)

NextParse == ParseHandle

SpecParse == InitParse /\ [][NextParse]_vars

\* a run that has parsed the handle h and read the webfinger document wf
AfterWebfinger(h, wf) ==
  /\ given_string = h.id \o << "@" >> \o h.domain
  /\ handle = Some(h)
  /\ stage = 1
  /\ requests = << [stage |-> 1, url |-> to_webfinger_url(h),
                    accept |-> AcceptWebfinger] >>
  /\ pending = {}
  /\ webfinger = Some(wf)
  /\ stdout = << >>
  /\ outcome = "running"

SampleHandles ==
  { [domain |-> << "b" >>, id |-> << "a" >>],
    [domain |-> << "b" >>, id |-> Repeat("a", HeaderWidth + 1)] }

\* Webfinger::to_actor_url over all short links arrays
InitLinks ==
  \E wf \in WebfingerDocs :
    /\ AfterWebfinger([domain |-> << "b" >>, id |-> << "a" >>], wf)
    /\ pc = "resolve"
    /\ feed = None
    /\ actor = None
    /\ index = None
    /\ page = None
    /\ for_posts = << >>
    /\ post_idx = 0
    /\ lines = << >>
    /\ line_idx = 0

NextLinks == ResolveActorUrl

SpecLinks == InitLinks /\ [][NextLinks]_vars

\* the end of main, from the decoded page on, over all short pages
InitPosts ==
  \E h \in SampleHandles, pg \in PageDocs :
    LET wf == [links |-> << Profile, Feed(UrlA) >>]
        a  == [outbox |-> << "https://b/outbox" >>]
        ix == [first |-> << "https://b/outbox?page=1" >>,
               last |-> << "https://b/outbox?page=9" >>, total_items |-> 3]
    IN  /\ given_string = h.id \o << "@" >> \o h.domain
        /\ handle = Some(h)
        /\ pc = "posts"
        /\ stage = 4
        /\ requests =
             << [stage |-> 1, url |-> to_webfinger_url(h), accept |-> AcceptWebfinger],
                [stage |-> 2, url |-> UrlA, accept |-> AcceptActivity],
                [stage |-> 3, url |-> a.outbox, accept |-> AcceptActivity],
                [stage |-> 4, url |-> ix.first, accept |-> AcceptActivity] >>
        /\ pending = {}
        /\ webfinger = Some(wf)
        /\ feed = Some(Ok(UrlA))
        /\ actor = Some(a)
        /\ index = Some(ix)
        /\ page = Some(pg)
        /\ for_posts = << >>
        /\ post_idx = 0
        /\ lines = << >>
        /\ line_idx = 0
        /\ stdout = << >>
        /\ outcome = "running"

NextPosts ==
  \/ CollectPosts
  \/ PrintHeader
  \/ PrintLine
  \/ PrintSeparator
  \/ Finish

SpecPosts == InitPosts /\ [][NextPosts]_vars

(* ------------------------------ properties ---------------------------- *)

\* positions of the separator in s
AtPositions(s) == { k \in 1..Len(s) : s[k] = "@" }

Min(S) == CHOOSE k \in S : \A m \in S : k <= m
Max(S) == CHOOSE k \in S : \A m \in S : m <= k

\* the text before the first separator, or after it up to the next one, is empty
EmptySide(s) ==
  /\ AtPositions(s) # {}
  /\ LET k == Min(AtPositions(s))
     IN  k = 1 \/ k = Len(s) \/ s[k + 1] = "@"

\* exactly one separator, with text on both sides
WellFormed(s) ==
  /\ Cardinality(AtPositions(s)) = 1
  /\ ~EmptySide(s)

\* C1: parse_string fails with BadHandle for every string that has no '@' or
\* an empty segment before or after the '@'; every Handle it returns has a
\* non-empty id and a non-empty domain.
C1_BadHandleOnMissingOrEmpty ==
  pc # "parse" =>
    /\ (AtPositions(given_string) = {} \/ EmptySide(given_string))
         => (outcome = "BadHandleError" /\ handle = None)
    /\ handle # None => (handle[1].id # << >> /\ handle[1].domain # << >>)

\* C4: for every string with exactly one '@' and text on both sides, parsing
\* succeeds, id is the text before the '@', domain the text after it, and
\* id + "@" + domain is the input again.
C4_RoundTrip ==
  (pc # "parse" /\ WellFormed(given_string)) =>
    LET k == Min(AtPositions(given_string))
    IN  /\ handle # None
        /\ outcome = "running"
        /\ handle[1].id = SubSeq(given_string, 1, k - 1)
        /\ handle[1].domain = SubSeq(given_string, k + 1, Len(given_string))
        /\ handle[1].id \o << "@" >> \o handle[1].domain = given_string

C4_Witness ==
  /\ pc # "parse"
  /\ given_string = << "a", "b", "@", "b", "a" >>
  /\ handle = Some([domain |-> << "b", "a" >>, id |-> << "a", "b" >>])

\* C8: for every string with two or more '@', parsing succeeds with id the
\* text before the first '@' and domain the text between the first and the
\* second '@'; what follows the second '@' has no effect on the Handle.
C8_ExtraComponentsIgnored ==
  (pc # "parse" /\ Cardinality(AtPositions(given_string)) >= 2) =>
    LET k1 == Min(AtPositions(given_string))
        k2 == Min(AtPositions(given_string) \ {k1})
    IN  /\ handle # None
        /\ outcome = "running"
        /\ handle[1].id = SubSeq(given_string, 1, k1 - 1)
        /\ handle[1].domain = SubSeq(given_string, k1 + 1, k2 - 1)

C8_Witness ==
  /\ pc # "parse"
  /\ given_string = << "a", "@", "b", "@", "a" >>
  /\ handle = Some([domain |-> << "b" >>, id |-> << "a" >>])

\* positions of the Feed links in links
FeedPositions(links) == { k \in 1..Len(links) : links[k].rel = "self" }

\* C3: to_actor_url returns the href of the last Feed link when links holds
\* one or more Feed links, and NoFeedLink exactly when it holds none;
\* Profile and Subscribe links have no effect.
C3_LastFeedWins ==
  feed # None =>
    LET links == webfinger[1].links
        F     == FeedPositions(links)
    IN  /\ F = {} => (feed[1] = Err("NoFeedLink") /\ outcome = "NoFeedLink")
        /\ F # {} => (feed[1] = Ok(links[Max(F)].href) /\ outcome = "running")

C3_Witness ==
  /\ webfinger = Some([links |-> << Profile, Feed(UrlA), Feed(UrlB), Subscribe >>])
  /\ feed = Some(Ok(UrlB))

IsPost(item) == item.variant = "Post"

\* C5: Page.posts returns exactly the subsequence of ordered_items that are
\* Posts: every Post, no Boost, in the original order and multiplicity.
C5_PostsSubsequence ==
  pc \in {"loop", "body", "exit"} /\ page # None =>
    /\ for_posts = SelectSeq(page[1].ordered_items, IsPost)
    /\ \A k \in 1..Len(for_posts) : for_posts[k].variant # "Boost"

C5_Witness ==
  /\ pc = "loop"
  /\ page = Some([ordered_items |->
       << PostItem(ContentShort, "t"), Boost, PostItem(ContentLong, "t") >>])
  /\ for_posts = << PostItem(ContentShort, "t"), PostItem(ContentLong, "t") >>

\* id at the right end of a field of HeaderWidth columns
RightAligned(id) ==
  LET w == IF Len(id) < HeaderWidth THEN HeaderWidth ELSE Len(id)
  IN  [k \in 1..w |-> IF k <= w - Len(id) THEN " " ELSE id[k - (w - Len(id))]]

\* line behind IndentWidth spaces
Indented(line) ==
  [k \in 1..(Len(line) + IndentWidth) |->
     IF k <= IndentWidth THEN " " ELSE line[k - IndentWidth]]

BodyLines(post) ==
  LET ls == wrap(markdown_content(post), WrapWidth)
  IN  [k \in 1..Len(ls) |-> Indented(ls[k])]

\* the blocks of the posts ps from position k on: header, body, separator
RECURSIVE BlocksAsClaimed(_, _, _)
BlocksAsClaimed(id, ps, k) ==
  IF k > Len(ps) THEN << >>
  ELSE << RightAligned(id) >> \o BodyLines(ps[k]) \o << << >> >>
         \o BlocksAsClaimed(id, ps, k + 1)

\* the blocks of the posts ps from position k on: header, blank line, body,
\* separator
RECURSIVE BlocksWithBlank(_, _, _)
BlocksWithBlank(id, ps, k) ==
  IF k > Len(ps) THEN << >>
  ELSE << RightAligned(id), << >> >> \o BodyLines(ps[k]) \o << << >> >>
         \o BlocksWithBlank(id, ps, k + 1)

IsPrefix(a, b) == Len(a) <= Len(b) /\ a = SubSeq(b, 1, Len(a))

\* C6 as stated: the block of a post is the header line (the id right-aligned
\* in 15 columns), immediately the indented wrapped lines, then one blank
\* line, and nothing else; the blocks are in the order of the posts.
C6_BlockAsClaimed ==
  outcome = "ok" => stdout = BlocksAsClaimed(handle[1].id, for_posts, 1)

\* C6 amended: the block of a post is the header line (the id right-aligned
\* in 15 columns), one blank line, the indented wrapped lines, then one blank
\* line, and nothing else; the blocks are in the order of the posts.
C6_BlockWithBlank ==
  pc \in {"loop", "body", "exit"} /\ page # None =>
    LET expected == BlocksWithBlank(handle[1].id, for_posts, 1)
    IN  /\ IsPrefix(stdout, expected)
        /\ outcome = "ok" => stdout = expected

C6_Witness ==
  /\ outcome = "ok"
  /\ Len(for_posts) >= 2
  /\ Len(handle[1].id) < HeaderWidth
  /\ \E k \in 1..Len(for_posts) :
       Len(wrap(markdown_content(for_posts[k]), WrapWidth)) >= 2

\* number of header lines on stdout
PrintedBlocks ==
  Cardinality({ k \in 1..Len(stdout) : stdout[k] = RightAligned(handle[1].id) })

\* C2: a run ends either with all four stages read and every Post of the
\* page printed, or with an error and nothing printed; no error is reported
\* once a line is out.
C2_AllOrNothing ==
  /\ outcome \in Errors => stdout = << >>
  /\ stdout # << >> =>
       (webfinger # None /\ actor # None /\ index # None /\ page # None)
  /\ outcome = "ok" =>
       /\ webfinger # None /\ actor # None /\ index # None /\ page # None
       /\ Len(requests) = 4
       /\ PrintedBlocks =
            Cardinality({ k \in 1..Len(page[1].ordered_items) :
                            IsPost(page[1].ordered_items[k]) })

C2_Witness ==
  /\ outcome = "RequestError"
  /\ stage = 4
  /\ index # None
  /\ stdout = << >>

\* C7: the webfinger request goes to the URL built from the Handle, the
\* actor request to the href to_actor_url returned, the index request to
\* actor.outbox and the page request to index.first, each unchanged.
C7_RequestTargets ==
  /\ Len(requests) >= 1 =>
       /\ handle # None
       /\ requests[1].url =
            << "https://" >> \o handle[1].domain
              \o << "/.well-known/webfinger?resource=acct:" >> \o handle[1].id
              \o << "@" >> \o handle[1].domain
  /\ Len(requests) >= 2 =>
       /\ webfinger # None
       /\ FeedPositions(webfinger[1].links) # {}
       /\ requests[2].url =
            webfinger[1].links[Max(FeedPositions(webfinger[1].links))].href
  /\ Len(requests) >= 3 => (actor # None /\ requests[3].url = actor[1].outbox)
  /\ Len(requests) >= 4 => (index # None /\ requests[4].url = index[1].first)

C7_Witness ==
  /\ Len(requests) = 4
  /\ index[1].first # index[1].last
  /\ Cardinality(FeedPositions(webfinger[1].links)) = 2

\* the order of the stages, as a state predicate
StagesInOrder ==
  /\ Len(requests) <= 4
  /\ \A k \in 1..Len(requests) : requests[k].stage = k
  /\ Cardinality(pending) <= 1
  /\ pending \subseteq {Len(requests)}
  /\ Len(requests) >= 2 => (webfinger # None /\ feed # None /\ feed[1].ok)
  /\ Len(requests) >= 3 => actor # None
  /\ Len(requests) >= 4 => index # None
  /\ outcome = "BadHandleError" => requests = << >>
  /\ outcome = "NoFeedLink" => (Len(requests) = 1 /\ webfinger # None)
  /\ outcome = "RequestError" => (Len(requests) = stage /\ stage >= 1)

\* a request goes out only when nothing is pending and nothing has failed
RequestAfterResponse ==
  /\ requests' # requests =>
       /\ pending = {}
       /\ outcome = "running"
       /\ outcome' = "running"
       /\ Len(requests') = Len(requests) + 1
  /\ outcome \in Errors => requests' = requests

\* C9: the stages run in the order webfinger, actor, index, page; a request
\* goes out only after the response of the stage before is read and decoded;
\* at most one request is pending; after a failure no request goes out, and
\* after BadHandle none at all.
C9_Sequential == [] StagesInOrder /\ [][RequestAfterResponse]_vars

C9_Witness ==
  /\ outcome = "RequestError"
  /\ stage = 2
  /\ Len(requests) = 2

Terminal == {"ok"} \cup Errors

\* each stage has issued at most one request, and main has returned exactly
\* when an outcome is set
AtMostOncePerStage ==
  /\ Len(requests) <= 4
  /\ \A j, k \in 1..Len(requests) :
       requests[j].stage = requests[k].stage => j = k
  /\ pc = "exit" <=> outcome \in Terminal

\* the outcome of a run is final
OutcomeFinal == outcome \in Terminal => outcome' = outcome

\* C10: no stage is retried, so each stage issues at most one request and a
\* run, whose requests are all answered, ends after at most four requests in
\* exactly one of: success, BadHandle, NoFeedLink, RequestFailure.
C10_NoRetryTerminates ==
  /\ [] AtMostOncePerStage
  /\ [][OutcomeFinal]_vars
  /\ <>[] (outcome \in Terminal)

C10_Witness ==
  /\ outcome = "ok"
  /\ Len(requests) = 4
  /\ stdout # << >>

====
